---- MODULE Spec2Model ----
(***************************************************************************)
(* A model of the megalovania sequencer (src/src/main.rs): the instruction *)
(* sequencer (play_track), the mixer (play_source), the buffer filler      *)
(* (fill_buffer) and the termination handshake between the render thread   *)
(* (the closure given to event_loop.run) and the control thread (main).    *)
(*                                                                         *)
(* The program computes in f64 and so does the model: an f64 is a record   *)
(* [kind, sign, m, e], every operation rounds as IEEE 754 does, and the    *)
(* signal of a note, the sum of the tracks, the sample (signal * VOLUME)   *)
(* and the cast of the closure are the f64, f32 and integer values of the  *)
(* program, NaN and the infinities included.                               *)
(*                                                                         *)
(* Two quantities are counted in whole numbers:                            *)
(*   - a time is a number of ticks, TicksPerSecond to the second, and      *)
(*     stands for the f64 Seconds(ticks) nearest to ticks/TicksPerSecond.  *)
(*     Every sample rate of Formats divides TicksPerSecond, so that the    *)
(*     f64 counter / sample_rate is the f64 of a whole number of ticks;    *)
(*   - an instruction's length is a number of sixteenths of a measure      *)
(*     (LenDen of them to the measure: N16TH is 1, N8TH is 2, ...).        *)
(*     A sixteenth lasts an eighth of a second, so that length *           *)
(*     measure_time and every sum of such products are f64 without         *)
(*     rounding, and `t > start_of_instruction + current_length` on the    *)
(*     f64 is the same test on the ticks.                                  *)
(* Option<f64> is a sequence: None is <<>> and Some(x) is <<x>>.           *)
(***************************************************************************)
EXTENDS Integers, Sequences, FiniteSets, TLC

\* ------------------------------------------------------------- bounds
\* The largest number of instructions of a score (all tracks together).
MaxInstr == 2
\* The largest number of frames of a buffer the driver lends to one callback.
MaxFrames == 2
\* The session is followed until counter reaches MaxCounter ...
MaxCounter == 7
\* ... and until the render thread has sent MaxSends notifications.
MaxSends == 2
\* The largest number of instructions of a Track taken alone, and the latest
\* time (in ticks) it is evaluated at.
MaxTrackLen == 2
MaxTime == 13
\* The closures taken alone are given the f64 values k / SampleSteps.
SampleSteps == 32

\* -------------------------------------------------- program constants
A4 == 440
BPM == 120
\* u16::MAX and i16::MAX, i16::MIN.
U16Max == 65535
I16Max == 32767
I16Min == -32768
\* N16TH is 1.0 / 16.0 of a measure: lengths are counted in sixteenths.
LenDen == 16
N16TH == 1
N8TH == 2

\* The formats a device may offer (format.sample_rate, format.channels and
\* the sample type of the buffers the driver then lends).
Formats ==
    { [sample_rate |-> 3, channels |-> 2, data_type |-> "I16"],
      [sample_rate |-> 6, channels |-> 1, data_type |-> "F32"],
      [sample_rate |-> 8, channels |-> 1, data_type |-> "U16"] }

SampleRates == {f.sample_rate : f \in Formats}

\* The instruction lengths scores are drawn from.
Lengths == {N16TH, N8TH}

\* Note::pitch is any i32.  The pitches a session's scores are drawn from: A4
\* itself, and a pitch so high that pitch_compute is infinite (it is from
\* about 12184 on).
Pitches == {0, 20000}

\* Track::new takes any Vec<Instruction>: an f64 length may be zero or
\* negative as well.
AnyLengths == Lengths \cup {0, -N16TH}

\* A pitch of treble() whose frequency is not a whole number of Hz, and a
\* pitch so low that pitch_compute is 0.0 and 0.96f64.powi(pitch) is infinite,
\* whose note_gen is NaN.
ScorePitches == {-7}
NaNPitches == {-20000}

AnyPitches == Pitches \cup ScorePitches \cup NaNPitches

\* The numbers of tracks of a Source (main builds two: treble and bass).
TrackCounts == 0 .. 2

\* The least resolution of time in which every sample period and a sixteenth
\* of a measure are whole numbers of ticks.
TicksPerSecond ==
    CHOOSE n \in 1 .. 1000 :
        /\ \A r \in SampleRates : n % r = 0
        /\ (60 * 4 * n) % (BPM * LenDen) = 0
        /\ \A m \in 1 .. (n - 1) :
              ~ ( /\ \A r \in SampleRates : m % r = 0
                  /\ (60 * 4 * m) % (BPM * LenDen) = 0 )

None == << >>
Some(x) == << x >>

\* F at the value of v: v is evaluated once, however often F uses it.
With(v, F(_)) == CHOOSE y \in {F(x) : x \in {v}} : TRUE

\* The outcomes of F on the outcomes S of a step that has more than one: what
\* f64::sin returns is the library's choice among the f64 next to the sine,
\* and each function that calls it has the outcomes of each choice.
Each(S, F(_)) == UNION {F(x) : x \in S}

Abs(x) == IF x < 0 THEN -x ELSE x

Clamp(x, lo, hi) == IF x < lo THEN lo ELSE IF x > hi THEN hi ELSE x

\* --------------------------------------------------- whole numbers of any size
\* A whole number >= 0 too large for one integer is kept as its limbs, digits
\* to the base Base, the least significant first and the last one not 0; 0 is
\* the empty sequence.
LimbBits == 14
Base == 2^LimbBits

RECURSIVE Strip(_)
Strip(x) ==
    IF x = << >> THEN x
    ELSE IF x[Len(x)] = 0 THEN Strip(SubSeq(x, 1, Len(x) - 1))
    ELSE x

\* The limbs of the number whose columns (multiples of the powers of Base,
\* each of any sign) are cols, plus the carry c.
RECURSIVE Carry(_, _)
Carry(cols, c) ==
    IF cols = << >>
        THEN IF c = 0 THEN << >> ELSE << c % Base >> \o Carry(<< >>, c \div Base)
        ELSE LET v == Head(cols) + c
             IN  << v % Base >> \o Carry(Tail(cols), v \div Base)

BigFromInt(n) == Carry(<< >>, n)

Limb(x, i) == IF i <= Len(x) THEN x[i] ELSE 0

BigAdd(x, y) ==
    LET n == IF Len(x) > Len(y) THEN Len(x) ELSE Len(y)
    IN  Strip(Carry([i \in 1 .. n |-> Limb(x, i) + Limb(y, i)], 0))

\* x - y for x >= y.
BigSub(x, y) == Strip(Carry([i \in 1 .. Len(x) |-> x[i] - Limb(y, i)], 0))

\* -1, 0 or 1 as x is less than, equal to or greater than y.
RECURSIVE BigCmpFrom(_, _, _)
BigCmpFrom(x, y, i) ==
    IF i = 0 THEN 0
    ELSE IF x[i] < y[i] THEN -1
    ELSE IF x[i] > y[i] THEN 1
    ELSE BigCmpFrom(x, y, i - 1)

BigCmp(x, y) ==
    IF Len(x) < Len(y) THEN -1
    ELSE IF Len(x) > Len(y) THEN 1
    ELSE BigCmpFrom(x, y, Len(x))

\* x * c for 0 <= c <= 2^16.
BigMulSmall(x, c) == Strip(Carry([i \in 1 .. Len(x) |-> x[i] * c], 0))

\* x * y, for x and y of at most 7 limbs.
RECURSIVE Column(_, _, _, _)
Column(x, y, k, i) ==
    IF i > Len(x) \/ i > k THEN 0
    ELSE (IF k + 1 - i <= Len(y) THEN x[i] * y[k + 1 - i] ELSE 0) + Column(x, y, k, i + 1)

BigMul(x, y) ==
    IF x = << >> \/ y = << >> THEN << >>
    ELSE Strip(Carry([k \in 1 .. (Len(x) + Len(y) - 1) |-> Column(x, y, k, 1)], 0))

\* x * 2^n and the whole part of x / 2^n.
BigShl(x, n) ==
    IF x = << >> THEN x
    ELSE [i \in 1 .. (n \div LimbBits) |-> 0]
            \o Carry([i \in 1 .. Len(x) |-> x[i] * 2^(n % LimbBits)], 0)

BigShr(x, n) ==
    LET q == n \div LimbBits
        r == n % LimbBits
    IN  IF q >= Len(x) THEN << >>
        ELSE Strip([i \in 1 .. (Len(x) - q) |->
                      (x[q + i] \div 2^r) + (Limb(x, q + i + 1) % 2^r) * 2^(LimbBits - r)])

\* x less its multiples of 2^n.
BigLow(x, n) ==
    LET q == n \div LimbBits
        r == n % LimbBits
    IN  IF q >= Len(x) THEN x
        ELSE Strip([i \in 1 .. (q + 1) |-> IF i <= q THEN x[i] ELSE x[i] % 2^r])

\* The bit of 2^n in x.
BigBit(x, n) == (Limb(x, (n \div LimbBits) + 1) \div 2^(n % LimbBits)) % 2

\* The number of bits of x: the least n with x < 2^n.
BigLen(x) ==
    IF x = << >> THEN 0
    ELSE (Len(x) - 1) * LimbBits
            + (CHOOSE b \in 1 .. LimbBits : 2^(b - 1) <= x[Len(x)] /\ x[Len(x)] < 2^b)

\* The number of 0 bits below the lowest 1 bit of x # 0.
RECURSIVE LowZeros(_, _)
LowZeros(x, i) ==
    IF x[i] = 0 THEN LimbBits + LowZeros(x, i + 1)
    ELSE CHOOSE b \in 0 .. (LimbBits - 1) : x[i] % 2^b = 0 /\ (x[i] \div 2^b) % 2 = 1

\* The quotient q and the remainder r of x by c, for 0 < c <= 2^16; the limbs
\* are taken from the most significant down.
RECURSIVE BigDivModSmallFrom(_, _, _, _, _)
BigDivModSmallFrom(x, c, i, q, r) ==
    IF i = 0 THEN [q |-> Strip(q), r |-> r]
    ELSE With(r * Base + x[i],
              LAMBDA v : BigDivModSmallFrom(x, c, i - 1, << v \div c >> \o q, v % c))

BigDivModSmall(x, c) == BigDivModSmallFrom(x, c, Len(x), << >>, 0)

\* The greatest d with y * d <= v, for v < y * Base and a y whose highest limb
\* is Base / 2 or more: the quotient of the two highest limbs of v by the
\* highest limb of y, or 1 or 2 less.
RECURSIVE DigitFrom(_, _, _)
DigitFrom(v, y, d) ==
    IF BigCmp(BigMulSmall(y, d), v) <= 0 THEN d ELSE DigitFrom(v, y, d - 1)

Digit(v, y) ==
    With((Limb(v, Len(y) + 1) * Base + Limb(v, Len(y))) \div y[Len(y)],
         LAMBDA d : DigitFrom(v, y, IF d < Base THEN d ELSE Base - 1))

\* The quotient q and the remainder r of x by y, by long division to the
\* base Base, for a y whose highest limb is Base / 2 or more.
RECURSIVE BigDivModFrom(_, _, _, _, _)
BigDivModFrom(x, y, i, q, r) ==
    IF i = 0 THEN [q |-> Strip(q), r |-> r]
    ELSE With(Strip(<< x[i] >> \o r),
              LAMBDA v :
                With(Digit(v, y),
                     LAMBDA d : BigDivModFrom(x, y, i - 1, << d >> \o q,
                                              BigSub(v, BigMulSmall(y, d)))))

\* The quotient q and the remainder r of x by y # 0: x and y are doubled until
\* the highest limb of y is Base / 2 or more, which leaves the quotient as it
\* is and doubles the remainder as often.
BigDivMod(x, y) ==
    IF Len(y) = 1 THEN With(BigDivModSmall(x, y[1]),
                            LAMBDA s : [q |-> s.q, r |-> BigFromInt(s.r)])
    ELSE With((LimbBits - (BigLen(y) % LimbBits)) % LimbBits,
              LAMBDA shift :
                With(BigDivModFrom(BigShl(x, shift), BigShl(y, shift),
                                   Len(BigShl(x, shift)), << >>, << >>),
                     LAMBDA d : [q |-> d.q, r |-> BigShr(d.r, shift)]))

\* x * y for x and y of any length.  The products of the limbs are summed by
\* column, their parts below Base and their multiples of Base apart, so that
\* no sum reaches 2^31.
RECURSIVE ColumnPart(_, _, _, _, _)
ColumnPart(x, y, k, i, high) ==
    IF i > Len(x) \/ i > k THEN 0
    ELSE (IF k + 1 - i > Len(y) THEN 0
          ELSE IF high THEN (x[i] * y[k + 1 - i]) \div Base
          ELSE (x[i] * y[k + 1 - i]) % Base)
         + ColumnPart(x, y, k, i + 1, high)

BigMulLong(x, y) ==
    IF x = << >> \/ y = << >> THEN << >>
    ELSE Strip(Carry([k \in 1 .. (Len(x) + Len(y)) |->
                        ColumnPart(x, y, k, 1, FALSE) + ColumnPart(x, y, k - 1, 1, TRUE)], 0))

\* The integer of the limbs x, for x < 2^30.
RECURSIVE BigToInt(_)
BigToInt(x) == IF x = << >> THEN 0 ELSE Head(x) + Base * BigToInt(Tail(x))

\* ------------------------------------------------------------------- f64
\* An f64 is [kind, sign, m, e]: of kind "num" it is sign * m * 2^e, with m a
\* whole number of at most MantBits bits that is odd or 0 (0.0 and -0.0 have
\* m = 0 and e = 0); of kind "inf" it is the infinity of its sign; of kind
\* "nan" it is a NaN.  Every operation gives the exact result rounded to the
\* nearest f64, ties to the even mantissa, as IEEE 754 arithmetic does.  An
\* f32 is such a record too, of at most F32MantBits bits.
MantBits == 53
MinExp == -1074
MaxExp == 1024
F32MantBits == 24
F32MinExp == -149
F32MaxExp == 128

F64Zero(sign) == [kind |-> "num", sign |-> sign, m |-> << >>, e |-> 0]
F64Inf(sign) == [kind |-> "inf", sign |-> sign, m |-> << >>, e |-> 0]
F64NaN == [kind |-> "nan", sign |-> 1, m |-> << >>, e |-> 0]

IsZero(x) == x.kind = "num" /\ x.m = << >>

\* sign * m * 2^e for m # 0 that needs no rounding, with m made odd.
Exact(sign, m, e) ==
    With(LowZeros(m, 1),
         LAMBDA z : [kind |-> "num", sign |-> sign, m |-> BigShr(m, z), e |-> e + z])

\* sign * m * 2^e less the `over` lowest bits of m, which are rounded away to
\* the nearest and on a tie to the even; a result of 2^maxexp or more is an
\* infinity.
RoundAway(sign, m, e, over, maxexp) ==
    With(BigShr(m, over),
         LAMBDA kept :
    With(IF BigBit(m, over - 1) = 1 /\ (BigLow(m, over - 1) # << >> \/ BigBit(kept, 0) = 1)
            THEN BigAdd(kept, << 1 >>)
            ELSE kept,
         LAMBDA r :
            IF r = << >> THEN F64Zero(sign)
            ELSE IF BigLen(r) + e + over > maxexp THEN F64Inf(sign)
            ELSE Exact(sign, r, e + over)))

\* The float nearest to sign * m * 2^e in the format of mant mantissa bits
\* whose least subnormal is 2^minexp and whose numbers are below 2^maxexp:
\* the bits of m below the mant highest (or below 2^minexp) are rounded away.
FloatRound(sign, m, e, mant, minexp, maxexp) ==
    IF m = << >> THEN F64Zero(sign)
    ELSE
        With(BigLen(m),
             LAMBDA len :
        With(IF len - mant > minexp - e THEN len - mant ELSE minexp - e,
             LAMBDA over :
                IF over > 0 THEN RoundAway(sign, m, e, over, maxexp)
                ELSE IF len + e > maxexp THEN F64Inf(sign)
                ELSE Exact(sign, m, e)))

F64Round(sign, m, e) == FloatRound(sign, m, e, MantBits, MinExp, MaxExp)

\* `x as f32`: the f32 nearest to x; an infinity or a NaN stays what it is.
F32From(x) ==
    IF x.kind # "num" THEN x
    ELSE FloatRound(x.sign, x.m, x.e, F32MantBits, F32MinExp, F32MaxExp)

\* A whole number n as an f64 (exact for |n| < 2^31).
F64FromInt(n) ==
    IF n = 0 THEN F64Zero(1)
    ELSE Exact(IF n < 0 THEN -1 ELSE 1, BigFromInt(IF n < 0 THEN -n ELSE n), 0)

F64Neg(x) == [x EXCEPT !.sign = -x.sign]

\* x * y.
F64Mul(x, y) ==
    IF x.kind = "nan" \/ y.kind = "nan" THEN F64NaN
    ELSE IF x.kind = "inf" \/ y.kind = "inf"
        THEN (IF IsZero(x) \/ IsZero(y) THEN F64NaN ELSE F64Inf(x.sign * y.sign))
    ELSE IF IsZero(x) \/ IsZero(y) THEN F64Zero(x.sign * y.sign)
    ELSE F64Round(x.sign * y.sign, BigMul(x.m, y.m), x.e + y.e)

\* x / y.  The quotient of the mantissas is taken to MantBits + 2 bits or
\* more and a last bit is set if the division left a remainder, which rounds
\* as the exact quotient does.
F64Div(x, y) ==
    IF x.kind = "nan" \/ y.kind = "nan" THEN F64NaN
    ELSE IF x.kind = "inf"
        THEN (IF y.kind = "inf" THEN F64NaN ELSE F64Inf(x.sign * y.sign))
    ELSE IF y.kind = "inf" THEN F64Zero(x.sign * y.sign)
    ELSE IF IsZero(y)
        THEN (IF IsZero(x) THEN F64NaN ELSE F64Inf(x.sign * y.sign))
    ELSE IF IsZero(x) THEN F64Zero(x.sign * y.sign)
    ELSE
        With(MantBits + 2 + BigLen(y.m),
             LAMBDA shift :
        With(BigDivMod(BigShl(x.m, shift), y.m),
             LAMBDA d :
                F64Round(x.sign * y.sign,
                         BigAdd(BigShl(d.q, 1), IF d.r = << >> THEN << >> ELSE << 1 >>),
                         x.e - y.e - shift - 1)))

\* -1, 0 or 1 as |x| is less than, equal to or greater than |y|, for x and y
\* of kind "num".
MagCmp(x, y) ==
    IF x.m = << >> \/ y.m = << >>
        THEN (IF x.m # << >> THEN 1 ELSE IF y.m # << >> THEN -1 ELSE 0)
    ELSE
        With((BigLen(x.m) + x.e) - (BigLen(y.m) + y.e),
             LAMBDA d :
                IF d < 0 THEN -1
                ELSE IF d > 0 THEN 1
                ELSE BigCmp(BigShl(x.m, IF x.e >= y.e THEN x.e - y.e ELSE 0),
                            BigShl(y.m, IF x.e >= y.e THEN 0 ELSE y.e - x.e)))

\* -1, 0 or 1 as x is less than, equal to or greater than y, for x and y that
\* are not NaN (0.0 and -0.0 are equal).
F64Cmp(x, y) ==
    IF x.kind = "inf" \/ y.kind = "inf"
        THEN (IF x.kind = y.kind /\ x.sign = y.sign THEN 0
              ELSE IF x.kind = "inf" THEN x.sign
              ELSE -y.sign)
    ELSE IF IsZero(x) /\ IsZero(y) THEN 0
    ELSE IF IsZero(x) THEN -y.sign
    ELSE IF IsZero(y) THEN x.sign
    ELSE IF x.sign # y.sign THEN x.sign
    ELSE x.sign * MagCmp(x, y)

\* x < y and x <= y: false when x or y is a NaN.
F64Lt(x, y) == x.kind # "nan" /\ y.kind # "nan" /\ F64Cmp(x, y) < 0
F64Le(x, y) == x.kind # "nan" /\ y.kind # "nan" /\ F64Cmp(x, y) <= 0

\* x - y.
F64Sub(x, y) ==
    IF x.kind = "nan" \/ y.kind = "nan" THEN F64NaN
    ELSE IF x.kind = "inf"
        THEN (IF y.kind = "inf" /\ y.sign = x.sign THEN F64NaN ELSE x)
    ELSE IF y.kind = "inf" THEN F64Neg(y)
    ELSE IF IsZero(x) /\ IsZero(y)
        THEN F64Zero(IF x.sign = -1 /\ y.sign = 1 THEN -1 ELSE 1)
    ELSE IF IsZero(y) THEN x
    ELSE IF IsZero(x) THEN F64Neg(y)
    ELSE
        With(IF x.e < y.e THEN x.e ELSE y.e,
             LAMBDA e :
        With(BigShl(x.m, x.e - e),
             LAMBDA a :
        With(BigShl(y.m, y.e - e),
             LAMBDA b :
        With(IF x.sign # y.sign THEN [sign |-> x.sign, m |-> BigAdd(a, b)]
             ELSE IF BigCmp(a, b) >= 0 THEN [sign |-> x.sign, m |-> BigSub(a, b)]
             ELSE [sign |-> -x.sign, m |-> BigSub(b, a)],
             LAMBDA d :
                IF d.m = << >> THEN F64Zero(1) ELSE F64Round(d.sign, d.m, e)))))

\* x + y.
F64Add(x, y) == F64Sub(x, F64Neg(y))

\* x %= 1.0: x less its whole part, with the sign of x; exact.  The remainder
\* of an infinity or of a NaN is a NaN.
F64Fract(x) ==
    IF x.kind # "num" THEN F64NaN
    ELSE IF x.e >= 0 THEN F64Zero(x.sign)
    ELSE With(BigLow(x.m, -x.e),
              LAMBDA low : IF low = << >> THEN F64Zero(x.sign) ELSE Exact(x.sign, low, x.e))

\* `x as u16` and `x as i16`, for the type of the integers lo .. hi: the whole
\* part of x (the cast truncates toward zero), the nearest of lo and hi for an
\* x beyond them, and 0 for a NaN.
F64ToInt(x, lo, hi) ==
    IF x.kind = "nan" THEN 0
    ELSE IF x.kind = "inf" THEN (IF x.sign = 1 THEN hi ELSE lo)
    ELSE IF x.m = << >> THEN 0
    ELSE IF BigLen(x.m) + x.e > 30 THEN (IF x.sign = 1 THEN hi ELSE lo)
    ELSE With(IF x.e >= 0 THEN BigShl(x.m, x.e) ELSE BigShr(x.m, -x.e),
              LAMBDA whole : Clamp(x.sign * BigToInt(whole), lo, hi))

\* ------------------------------------------------------ the score data
Note(pitch, length) == [kind |-> "Note", pitch |-> pitch, length |-> length]
Rest(length) == [kind |-> "Rest", length |-> length]

\* The instructions of a session's scores: notes of A4 and rests of the
\* lengths of Lengths, and sixteenth notes of every pitch of Pitches.
Instructions ==
    {Note(0, l) : l \in Lengths}
        \cup {Note(p, N16TH) : p \in Pitches}
        \cup {Rest(l) : l \in Lengths}

\* Notes of A4 and rests of any length, and sixteenth notes of every pitch.
AnyInstructions ==
    {Note(0, l) : l \in AnyLengths}
        \cup {Note(p, N16TH) : p \in AnyPitches}
        \cup {Rest(l) : l \in AnyLengths}

\* Instruction::length
length(instruction) == instruction.length

\* Track::new
TrackNew(instructions) ==
    [ instructions |-> instructions,
      start_of_instruction |-> 0,
      current_instruction |-> 0 ]

SeqsUpTo(S, n) == UNION { [1 .. k -> S] : k \in 0 .. n }

RECURSIVE SumLen(_)
SumLen(ss) == IF ss = << >> THEN 0 ELSE Len(Head(ss)) + SumLen(Tail(ss))

\* The scores: every list of tracks with at most MaxInstr instructions in all.
Scores ==
    { ss \in UNION { [1 .. n -> SeqsUpTo(Instructions, MaxInstr)] : n \in TrackCounts } :
        SumLen(ss) <= MaxInstr }

SourceNew(score) == [tracks |-> [i \in 1 .. Len(score) |-> TrackNew(score[i])]]

\* ------------------------------------------------ waveform and envelope
\* The f64 constants of the code.  A decimal literal is the f64 nearest to it.
One == F64FromInt(1)
Two == F64FromInt(2)
Four == F64FromInt(4)
Ten == F64FromInt(10)
Quarter == F64Div(One, Four)
ThreeQuarters == F64Div(F64FromInt(3), Four)
Tenth == F64Div(One, Ten)
NineTenths == F64Div(F64FromInt(9), Ten)
Decay == F64Div(F64FromInt(96), F64FromInt(100))

\* const VOLUME: f64 = 0.1
VOLUME == F64Div(One, Ten)

\* 2.0f64.powf(1.0 / 12.0): 0x1.0f38f92d97963p+0, the f64 nearest to the
\* twelfth root of 2.
Semitone == [kind |-> "num", sign |-> 1, m |-> << 14691, 2917, 14585, 1084 >>, e |-> -52]

\* std::f64::consts::PI, 0x1.921fb54442d18p+1, and const TAU: f64 = 2.0 * PI.
PI == [kind |-> "num", sign |-> 1, m |-> << 1443, 10786, 1014, 201 >>, e |-> -48]
TAU == F64Mul(Two, PI)

\* The f64 of a time of ticks: ticks / TicksPerSecond, rounded.
Seconds(ticks) == F64Div(F64FromInt(ticks), F64FromInt(TicksPerSecond))

\* The f64 of a length of n sixteenths: const N16TH: f64 = 1.0 / 16.0, ...
Sixteenths(n) == F64Div(F64FromInt(n), F64FromInt(LenDen))

\* f64::powi(x, n), as the compiler's runtime computes it: the powers x,
\* x^2, x^4, ... of the bits of |n| are multiplied into mul, each product
\* rounded, and a negative n gives 1.0 / mul.
RECURSIVE powi_loop(_, _, _)
powi_loop(a, pow, mul) ==
    With(IF pow % 2 = 1 THEN F64Mul(mul, a) ELSE mul,
         LAMBDA next :
            IF pow \div 2 = 0 THEN next
            ELSE With(F64Mul(a, a), LAMBDA square : powi_loop(square, pow \div 2, next)))

powi(x, n) ==
    With(powi_loop(x, Abs(n), One),
         LAMBDA mul : IF n < 0 THEN F64Div(One, mul) ELSE mul)

\* pitch_compute: A4 * 2.0f64.powf(1.0 / 12.0).powi(pitch), in Hz.
pitch_compute(pitch) == F64Mul(F64FromInt(A4), powi(Semitone, pitch))

\* f64::sin, for the sin_wave build.  The platform's sine is not rounded to the
\* nearest f64 on every argument: it gives one of the f64 next to the sine,
\* which one is the library's affair.  F64Sin(x) is the set of the f64 it may
\* give.
\*
\* The sine is summed in whole numbers of 2^-SinBits.  |x| is taken modulo
\* 2 pi by its product with 1 / (2 pi), of which the whole part is dropped
\* and the rest is multiplied by 2 pi; of 1 / (2 pi) the product needs as
\* many bits below the point as |x| has above it and SinBits + SinGuard
\* more, so that the remainder is right to 2^-SinBits for every finite x.
\* SinPerTwoPi is 1 / (2 pi) in whole numbers of 2^-SinPerBits and SinTwoPi
\* is 2 pi in whole numbers of 2^-(SinBits + SinGuard).
SinBits == 168
SinGuard == 14
SinPerBits == 1218
SinPerTwoPi ==
  << 11179, 12781, 1135, 204, 2134, 13684, 4600, 6124, 11259, 2985, 9513,
     15842, 1849, 11508, 7959, 15097, 15047, 5278, 8919, 6138, 9886, 6397,
     13556, 621, 10187, 15164, 4967, 2011, 2669, 11624, 12568, 15307, 6159,
     14358, 16381, 15909, 15135, 9376, 15327, 6114, 7300, 10194, 13619, 3680,
     4566, 1254, 14308, 11543, 12326, 9841, 2126, 11985, 13614, 2263, 11912,
     10703, 12585, 11378, 8670, 1855, 4498, 10279, 4846, 402, 4832, 2359,
     9124, 2331, 8631, 12053, 15851, 6378, 15953, 263, 1081, 9807, 8853,
     877, 3548, 15693, 6097, 12445, 4767, 4357, 11854, 9741, 2607 >>
SinTwoPi ==
  << 3992, 1107, 2497, 5249, 14754, 1760, 4464, 9009, 10633, 1553, 1069,
     11601, 4639, 6 >>

\* The sum of the series is within SinError * 2^-SinBits of the sine.
SinError == << 256 >>

\* The f64 next to sign * m * 2^e on the side of 0 and on the other side, and
\* sign * m * 2^e where it is an f64: the bits of m below the MantBits highest
\* (or below 2^MinExp) are cut off, and for the farther one the last bit kept
\* is raised by one when a bit was cut.  m * 2^e is below 2^MaxExp.
F64Toward(sign, m, e, far) ==
    IF m = << >> THEN F64Zero(sign)
    ELSE
        With(BigLen(m),
             LAMBDA len :
        With(IF len - MantBits > MinExp - e THEN len - MantBits ELSE MinExp - e,
             LAMBDA over :
                IF over <= 0 THEN Exact(sign, m, e)
                ELSE
                    With(IF far /\ BigLow(m, over) # << >>
                            THEN BigAdd(BigShr(m, over), << 1 >>)
                            ELSE BigShr(m, over),
                         LAMBDA kept :
                            IF kept = << >> THEN F64Zero(sign)
                            ELSE Exact(sign, kept, e + over))))

F64Below(sign, m, e) == F64Toward(sign, m, e, FALSE)
F64Above(sign, m, e) == F64Toward(sign, m, e, TRUE)

\* The series of the sine of a, less its factor a, in whole numbers of
\* 2^-SinBits, for 0 <= a <= pi / 2 and x2 the square of a:
\* 1 - x2 / (2 * 3) * (1 - x2 / (4 * 5) * (1 - ...)), from the factor of
\* 2 * k * (2 * k + 1) on; the terms after SinTerms factors are below
\* 2^-SinBits.
SinTerms == 25
RECURSIVE SinSeries(_, _)
SinSeries(x2, k) ==
    IF k > SinTerms THEN BigShl(<< 1 >>, SinBits)
    ELSE With(SinSeries(x2, k + 1),
              LAMBDA rest :
                BigSub(BigShl(<< 1 >>, SinBits),
                       BigDivModSmall(BigShr(BigMulLong(x2, rest), SinBits),
                                      2 * k * (2 * k + 1)).q))

\* The sine of r * 2^-SinBits for 0 <= r < 2 pi, as [sign, m]: r is brought
\* into [0, pi / 2], where the series is summed.
SinReduced(r) ==
    With(BigShr(SinTwoPi, SinGuard + 1),
         LAMBDA pi :
    With(IF BigCmp(r, pi) >= 0 THEN BigSub(r, pi) ELSE r,
         LAMBDA half :
    With(IF BigCmp(BigShl(half, 1), pi) > 0 THEN BigSub(pi, half) ELSE half,
         LAMBDA a :
    With(SinSeries(BigShr(BigMulLong(a, a), SinBits), 1),
         LAMBDA series :
            [ sign |-> IF BigCmp(r, pi) >= 0 THEN -1 ELSE 1,
              m |-> BigShr(BigMulLong(a, series), SinBits) ]))))

\* |x| modulo 2 pi in whole numbers of 2^-SinBits, for a finite x # 0.  Of
\* 1 / (2 pi) in whole numbers of 2^-bits the part from 2^(bits - x.e) on
\* makes whole turns of x.m * 2^x.e and is left out; of the product with x.m
\* the part below 2^(bits - x.e) is the part of a turn that remains.
SinArgument(x) ==
    With(SinBits + SinGuard + (IF BigLen(x.m) + x.e > 0 THEN BigLen(x.m) + x.e ELSE 0),
         LAMBDA bits :
    With(BigLow(BigMul(x.m, BigLow(BigShr(SinPerTwoPi, SinPerBits - bits), bits - x.e)),
                bits - x.e),
         LAMBDA turn :
            BigShr(BigMulLong(turn, SinTwoPi), bits - x.e + SinGuard)))

\* The f64 next to s * 2^-SinBits less its error and plus its error.
SinNear(sign, s) ==
    With(IF BigCmp(s, SinError) > 0 THEN BigSub(s, SinError) ELSE << >>,
         LAMBDA low :
    With(BigAdd(s, SinError),
         LAMBDA high :
            { F64Below(sign, low, -SinBits), F64Above(sign, low, -SinBits),
              F64Below(sign, high, -SinBits), F64Above(sign, high, -SinBits) }))

\* The sine of a NaN or of an infinity is NaN and that of a zero is the zero.
\* The sine of an |x| below 2^-26 is between x and the f64 next to x on the
\* side of 0.
F64Sin(x) ==
    IF x.kind # "num" THEN {F64NaN}
    ELSE IF x.m = << >> THEN {x}
    ELSE IF BigLen(x.m) + x.e <= -26
        THEN {x, F64Below(x.sign, BigSub(BigShl(x.m, MantBits + 1), << 1 >>),
                          x.e - (MantBits + 1))}
    ELSE With(SinReduced(SinArgument(x)), LAMBDA s : SinNear(x.sign * s.sign, s.m))

\* sin_wave(x): (x * TAU).sin(), the set of the f64 it may be.
sin_wave(x) == F64Sin(F64Mul(x, TAU))

\* sawtooth(x).  `x %= 1.0` keeps the sign of x, so that a negative phase that
\* is not whole stays negative and falls through the three tests to
\* panic!("invalid input"), as does the NaN that is the remainder of a NaN or
\* of an infinity; -0.0 passes `0.0 <= x`.
sawtooth(phase) ==
    With(F64Fract(phase),
         LAMBDA x :
            IF F64Le(F64Zero(1), x) /\ F64Lt(x, Quarter)
                THEN [panic |-> FALSE, val |-> F64Mul(x, Four)]
            ELSE IF F64Le(Quarter, x) /\ F64Lt(x, ThreeQuarters)
                THEN [panic |-> FALSE, val |-> F64Sub(Two, F64Mul(x, Four))]
            ELSE IF F64Le(ThreeQuarters, x) /\ F64Lt(x, One)
                THEN [panic |-> FALSE, val |-> F64Sub(F64Mul(x, Four), Four)]
            ELSE [panic |-> TRUE, val |-> F64Zero(1)])

\* envelope(x).  A NaN fails every comparison and falls through to 1.0.
envelope(x) ==
    IF F64Lt(x, F64Zero(1)) \/ F64Lt(One, x) THEN F64Zero(1)
    ELSE IF F64Lt(x, Tenth) THEN F64Mul(x, Ten)
    ELSE IF F64Lt(NineTenths, x) THEN F64Mul(F64Sub(One, x), Ten)
    ELSE One

\* cfg!(feature = "sin_wave"): the feature is off unless the build asks for it.
SinWaveFeature == FALSE

\* let generator = if cfg!(feature = "sin_wave") { sin_wave } else { sawtooth }:
\* the outcomes of the generator, of which sawtooth has one.
generator(x) ==
    IF SinWaveFeature THEN {[panic |-> FALSE, val |-> v] : v \in sin_wave(x)}
    ELSE {sawtooth(x)}

\* note_gen(t, pitch, length), t and length (here len) f64:
\* generator(t * pitch_compute(pitch)) * envelope(t / length) * 0.96f64.powi(pitch),
\* or the panic of the generator, for each outcome of the generator.
note_gen(t, pitch, len) ==
    { IF generated.panic THEN [panic |-> TRUE, val |-> F64Zero(1)]
      ELSE [ panic |-> FALSE,
             val |-> F64Mul(F64Mul(generated.val, envelope(F64Div(t, len))),
                            powi(Decay, pitch)) ] :
        generated \in generator(F64Mul(t, pitch_compute(pitch))) }

\* ------------------------------------------------------------ play_track
\* let measure_time = 60.0 / BPM * 4.0: in ticks, and the f64 of the code.
measure_time == ((60 * TicksPerSecond) \div BPM) * 4
measure_time_f64 == F64Mul(F64Div(F64FromInt(60), F64FromInt(BPM)), Four)

\* instructions[*current_instruction].length() * measure_time, in ticks.
current_length(instruction) == (length(instruction) * measure_time) \div LenDen

\* The arguments of a call of note_gen: the elapsed time and the note's
\* duration, both f64.  play_track reports the call it made, if any, as gen.
NoteGenCall(t, len) == [t |-> t, length |-> len]

\* note_gen(t - *start_of_instruction, pitch, length * measure_time), the call
\* of play_track at the time t for a Note of `len` sixteenths that began at
\* start: the two f64 arguments and what note_gen makes of them, for each
\* outcome of note_gen.
note_gen_call(t, start, pitch, len) ==
    With(F64Sub(Seconds(t), Seconds(start)),
         LAMBDA elapsed :
    With(F64Mul(Sixteenths(len), measure_time_f64),
         LAMBDA duration :
            { [t |-> elapsed, length |-> duration, val |-> g.val, panic |-> g.panic] :
                g \in note_gen(elapsed, pitch, duration) }))

\* The times play_track is called at on a track alone, in ticks: any f64, also
\* a negative one.
Times == -1 .. MaxTime

\* The times of the samples of a session, in ticks.
SampleTicks == {(c * TicksPerSecond) \div r : c \in 0 .. MaxCounter, r \in SampleRates}

\* The sums of at most n lengths of S.
RECURSIVE SumsUpTo(_, _)
SumsUpTo(n, S) ==
    IF n <= 0 THEN {0}
    ELSE With(SumsUpTo(n - 1, S), LAMBDA sums : sums \cup {a + l : a \in sums, l \in S})

\* The calls of note_gen of the sessions and of the tracks alone, as
\* << t, start, pitch, length >>: each is computed once, in NoteGenTable.
SessionCalls ==
    { c \in { << t, (s * measure_time) \div LenDen, i.pitch, i.length >> :
                t \in SampleTicks,
                s \in SumsUpTo(MaxInstr - 1, Lengths),
                i \in {j \in Instructions : j.kind = "Note"} } :
        c[2] <= c[1] }

TrackCalls ==
    { << t, (s * measure_time) \div LenDen, i.pitch, i.length >> :
        t \in Times,
        s \in SumsUpTo(MaxTrackLen - 1, AnyLengths),
        i \in {j \in AnyInstructions : j.kind = "Note"} }

NoteGenTable ==
    [c \in SessionCalls \cup TrackCalls |-> note_gen_call(c[1], c[2], c[3], c[4])] @@ << >>

\* The call of note_gen of play_track, with its outcomes: the value of
\* NoteGenTable where it has one.
note_gen_played(t, start, pitch, len) ==
    With(NoteGenTable,
         LAMBDA table :
            IF << t, start, pitch, len >> \in DOMAIN table
                THEN table[<< t, start, pitch, len >>]
                ELSE note_gen_call(t, start, pitch, len))

\* Mutant of play_track: a track that has played its last instruction starts
\* over at the next evaluation.
play_track_loop(t, track) ==
    LET instructions == track.instructions
    IN  IF instructions = << >>
            THEN {[out |-> None, track |-> track, panic |-> FALSE, gen |-> None]}
        ELSE
            LET cl == current_length(instructions[track.current_instruction + 1])
                advance == t > track.start_of_instruction + cl
                start == IF advance THEN track.start_of_instruction + cl
                                    ELSE track.start_of_instruction
                cur == IF advance THEN track.current_instruction + 1
                                  ELSE track.current_instruction
                moved == [track EXCEPT !.start_of_instruction = start,
                                       !.current_instruction = cur]
            IN  IF cur >= Len(instructions)
                    THEN {[ out |-> None, track |-> [moved EXCEPT !.current_instruction = 0], panic |-> FALSE,
                            gen |-> None ]}
                ELSE
                    LET ins == instructions[cur + 1]
                    IN  IF ins.kind = "Note"
                            THEN { [ out |-> Some(g.val), track |-> moved,
                                     panic |-> g.panic,
                                     gen |-> Some(NoteGenCall(g.t, g.length)) ] :
                                    g \in note_gen_played(t, start, ins.pitch, length(ins)) }
                            ELSE {[ out |-> Some(F64Zero(1)), track |-> moved,
                                    panic |-> FALSE, gen |-> None ]}

\* Mutant of play_track: the advance skips an instruction.
play_track_skip(t, track) ==
    LET instructions == track.instructions
    IN  IF track.current_instruction >= Len(instructions)
            THEN {[out |-> None, track |-> track, panic |-> FALSE, gen |-> None]}
        ELSE
            LET cl == current_length(instructions[track.current_instruction + 1])
                advance == t > track.start_of_instruction + cl
                start == IF advance THEN track.start_of_instruction + cl
                                    ELSE track.start_of_instruction
                cur == IF advance THEN track.current_instruction + 2
                                  ELSE track.current_instruction
                moved == [track EXCEPT !.start_of_instruction = start,
                                       !.current_instruction = cur]
            IN  IF cur >= Len(instructions)
                    THEN {[ out |-> None, track |-> moved, panic |-> FALSE,
                            gen |-> None ]}
                ELSE
                    LET ins == instructions[cur + 1]
                    IN  IF ins.kind = "Note"
                            THEN { [ out |-> Some(g.val), track |-> moved,
                                     panic |-> g.panic,
                                     gen |-> Some(NoteGenCall(g.t, g.length)) ] :
                                    g \in note_gen_played(t, start, ins.pitch, length(ins)) }
                            ELSE {[ out |-> Some(F64Zero(1)), track |-> moved,
                                    panic |-> FALSE, gen |-> None ]}

\* Mutant of play_track: the next instruction begins at the time of the call
\* that advanced to it.
play_track_drift(t, track) ==
    LET instructions == track.instructions
    IN  IF track.current_instruction >= Len(instructions)
            THEN {[out |-> None, track |-> track, panic |-> FALSE, gen |-> None]}
        ELSE
            LET cl == current_length(instructions[track.current_instruction + 1])
                advance == t > track.start_of_instruction + cl
                start == IF advance THEN t
                                    ELSE track.start_of_instruction
                cur == IF advance THEN track.current_instruction + 1
                                  ELSE track.current_instruction
                moved == [track EXCEPT !.start_of_instruction = start,
                                       !.current_instruction = cur]
            IN  IF cur >= Len(instructions)
                    THEN {[ out |-> None, track |-> moved, panic |-> FALSE,
                            gen |-> None ]}
                ELSE
                    LET ins == instructions[cur + 1]
                    IN  IF ins.kind = "Note"
                            THEN { [ out |-> Some(g.val), track |-> moved,
                                     panic |-> g.panic,
                                     gen |-> Some(NoteGenCall(g.t, g.length)) ] :
                                    g \in note_gen_played(t, start, ins.pitch, length(ins)) }
                            ELSE {[ out |-> Some(F64Zero(1)), track |-> moved,
                                    panic |-> FALSE, gen |-> None ]}

\* Mutant of play_track: the advance test is not strict (>= for >).
play_track_nonstrict(t, track) ==
    LET instructions == track.instructions
    IN  IF track.current_instruction >= Len(instructions)
            THEN {[out |-> None, track |-> track, panic |-> FALSE, gen |-> None]}
        ELSE
            LET cl == current_length(instructions[track.current_instruction + 1])
                advance == t >= track.start_of_instruction + cl
                start == IF advance THEN track.start_of_instruction + cl
                                    ELSE track.start_of_instruction
                cur == IF advance THEN track.current_instruction + 1
                                  ELSE track.current_instruction
                moved == [track EXCEPT !.start_of_instruction = start,
                                       !.current_instruction = cur]
            IN  IF cur >= Len(instructions)
                    THEN {[ out |-> None, track |-> moved, panic |-> FALSE,
                            gen |-> None ]}
                ELSE
                    LET ins == instructions[cur + 1]
                    IN  IF ins.kind = "Note"
                            THEN { [ out |-> Some(g.val), track |-> moved,
                                     panic |-> g.panic,
                                     gen |-> Some(NoteGenCall(g.t, g.length)) ] :
                                    g \in note_gen_played(t, start, ins.pitch, length(ins)) }
                            ELSE {[ out |-> Some(F64Zero(1)), track |-> moved,
                                    panic |-> FALSE, gen |-> None ]}

\* play_track(t, track), t in ticks.  The cursor moves by at most one
\* instruction, before the instruction under it is rendered; an exhausted
\* track returns None.  A Rest is 0.0.  The call has the outcomes of its
\* note_gen, and one outcome where it calls none.
play_track(t, track) ==
    LET instructions == track.instructions
    IN  IF track.current_instruction >= Len(instructions)
            THEN {[out |-> None, track |-> track, panic |-> FALSE, gen |-> None]}
        ELSE
            LET cl == current_length(instructions[track.current_instruction + 1])
                advance == t > track.start_of_instruction + cl
                start == IF advance THEN track.start_of_instruction + cl
                                    ELSE track.start_of_instruction
                cur == IF advance THEN track.current_instruction + 1
                                  ELSE track.current_instruction
                moved == [track EXCEPT !.start_of_instruction = start,
                                       !.current_instruction = cur]
            IN  IF cur >= Len(instructions)
                    THEN {[ out |-> None, track |-> moved, panic |-> FALSE,
                            gen |-> None ]}
                ELSE
                    LET ins == instructions[cur + 1]
                    IN  IF ins.kind = "Note"
                            THEN { [ out |-> Some(g.val), track |-> moved,
                                     panic |-> g.panic,
                                     gen |-> Some(NoteGenCall(g.t, g.length)) ] :
                                    g \in note_gen_played(t, start, ins.pitch, length(ins)) }
                            ELSE {[ out |-> Some(F64Zero(1)), track |-> moved,
                                    panic |-> FALSE, gen |-> None ]}

\* ----------------------------------------------------------- the closures
\* The three closures of main, from the f64 sample f to the device's sample
\* type: ((1.0 + f) * f64::from(u16::MAX / 2)) as u16, where u16::MAX / 2 is
\* a division of integers; (f * f64::from(i16::MAX)) as i16; and f as f32.
closure(data_type, f) ==
    CASE data_type = "U16" ->
            F64ToInt(F64Mul(F64Add(One, f), F64FromInt(U16Max \div 2)), 0, U16Max)
      [] data_type = "I16" ->
            F64ToInt(F64Mul(f, F64FromInt(I16Max)), I16Min, I16Max)
      [] OTHER -> F32From(f)

\* ----------------------------------------------------------- play_source
\* The signals of the tracks of a session at the sample time t: those of the
\* notes and the 0.0 of a Rest.
SignalsAt(t) ==
    {F64Zero(1)}
        \cup UNION {{g.val : g \in NoteGenTable[c]} : c \in {d \in SessionCalls : d[1] = t}}

\* The f64 arithmetic of play_source, fill_buffer and the closures on the
\* signals of a session, each value computed once: sum is x + y for the
\* signals x and y of two tracks at one sample time, volume is signal * VOLUME
\* for the signals play_source returns, and closure is the closures' values
\* of these samples.
SampleTables ==
    With([t \in SampleTicks |-> SignalsAt(t)],
         LAMBDA at :
            With([p \in UNION {at[t] \X at[t] : t \in SampleTicks} |->
                    F64Add(p[1], p[2])] @@ << >>,
                 LAMBDA sum :
                    With([x \in UNION {at[t] : t \in SampleTicks}
                                \cup {sum[p] : p \in DOMAIN sum} |->
                            F64Mul(x, VOLUME)] @@ << >>,
                         LAMBDA volume :
                            [ sum |-> sum,
                              volume |-> volume,
                              closure |->
                                [a \in {f.data_type : f \in Formats}
                                        \X {volume[x] : x \in DOMAIN volume} |->
                                    closure(a[1], a[2])] @@ << >> ])))

\* x + y of play_source, signal * VOLUME of fill_buffer and closure(val): the
\* values of SampleTables where it has them.
sum_played(x, y) ==
    With(SampleTables.sum,
         LAMBDA table :
            IF << x, y >> \in DOMAIN table THEN table[<< x, y >>] ELSE F64Add(x, y))

volume_played(signal) ==
    With(SampleTables.volume,
         LAMBDA table :
            IF signal \in DOMAIN table THEN table[signal] ELSE F64Mul(signal, VOLUME))

closure_played(data_type, val) ==
    With(SampleTables.closure,
         LAMBDA table :
            IF << data_type, val >> \in DOMAIN table THEN table[<< data_type, val >>]
            ELSE closure(data_type, val))

\* Mutants of merge: an exhausted track counted as a silent one, and an
\* exhausted track muting the tracks before it.
merge_silent(final_output, output) ==
    Some(sum_played(IF final_output = None THEN F64Zero(1) ELSE final_output[1],
                    IF output = None THEN F64Zero(1) ELSE output[1]))

merge_mute(final_output, output) ==
    IF final_output = None /\ output = None THEN None
    ELSE IF final_output = None THEN output
    ELSE IF output = None THEN None
    ELSE Some(sum_played(final_output[1], output[1]))

\* The match of play_source on (final_output, output).
merge(final_output, output) ==
    IF final_output = None /\ output = None THEN None
    ELSE IF final_output = None THEN output
    ELSE IF output = None THEN final_output
    ELSE Some(sum_played(final_output[1], output[1]))

RECURSIVE fold_outputs(_, _)
fold_outputs(final_output, outputs) ==
    IF outputs = << >> THEN final_output
    ELSE fold_outputs(merge(final_output, Head(outputs)), Tail(outputs))

\* The iterator `outputs` of play_source, pulled by the for loop one track at
\* a time: rs are the results of the tracks evaluated so far.  The map is lazy,
\* so a track whose play_track panics is the last one evaluated.  The loop has
\* the outcomes of each outcome of its calls of play_track.
RECURSIVE pull_outputs(_, _, _)
pull_outputs(t, tracks, rs) ==
    IF Len(rs) = Len(tracks) THEN {rs}
    ELSE Each(play_track(t, tracks[Len(rs) + 1]),
              LAMBDA r :
                IF r.panic THEN {Append(rs, r)}
                ELSE pull_outputs(t, tracks, Append(rs, r)))

\* play_source(t, source): the tracks are evaluated at t, in order; outs are
\* the outputs of the tracks evaluated, out is final_output.  After a panic the
\* tracks behind the panicking one are as they were.  play_source_of is the
\* call whose tracks returned rs, and the call has one outcome for each rs.
play_source_of(source, rs) ==
    LET outs == [i \in 1 .. Len(rs) |-> rs[i].out]
    IN  [ out |-> fold_outputs(None, outs),
          outs |-> outs,
          source |-> [tracks |-> [i \in 1 .. Len(source.tracks) |->
                                    IF i <= Len(rs) THEN rs[i].track
                                    ELSE source.tracks[i]]],
          panic |-> \E i \in 1 .. Len(rs) : rs[i].panic ]

play_source(t, source) ==
    {play_source_of(source, rs) : rs \in pull_outputs(t, source.tracks, << >>)}

\* ----------------------------------------------------------- fill_buffer
\* Mutant of time_of: the division done in integers, before the conversion.
time_of_whole(counter, sample_rate) == (counter \div sample_rate) * TicksPerSecond

\* let t = (*counter as f64) / (sample_rate as f64), in ticks.
time_of(counter, sample_rate) == (counter * TicksPerSecond) \div sample_rate

\* A slot of the buffer the driver lends holds None until the call writes it,
\* and Some(q) once q has been written to it.
Unwritten == None

\* Mutant of sample_value: silence taken for exhaustion.
sample_value_eager(out, terminating) ==
    IF out = None \/ out = Some(F64Zero(1))
        THEN [val |-> F64Zero(1), terminating |-> TRUE]
    ELSE [val |-> volume_played(out[1]), terminating |-> terminating]

\* The match on play_source's result: Some(signal) => signal * VOLUME, and
\* None => { *terminating = true; 0.0 }.
sample_value(out, terminating) ==
    IF out = None THEN [val |-> F64Zero(1), terminating |-> TRUE]
    ELSE [val |-> volume_played(out[1]), terminating |-> terminating]

\* Mutant of write_frame: only the frame's first channel is written.
write_frame_first(buffer, i, channel_count, q) ==
    [k \in 1 .. Len(buffer) |->
        IF k - 1 = channel_count * i THEN Some(q) ELSE buffer[k]]

\* for j in 0 .. channel_count { buffer[channel_count * i + j] = closure(val) }
write_frame(buffer, i, channel_count, q) ==
    [k \in 1 .. Len(buffer) |->
        IF \E j \in 0 .. (channel_count - 1) : k - 1 = channel_count * i + j
            THEN Some(q) ELSE buffer[k]]

\* The cursors of a Source's tracks: current_instruction and
\* start_of_instruction of each.
Cursors(src) ==
    [ i \in 1 .. Len(src.tracks) |->
        [ current_instruction |-> src.tracks[i].current_instruction,
          start_of_instruction |-> src.tracks[i].start_of_instruction ] ]

\* One iteration of `for i in 0 .. (buffer.len() / channel_count)`.  st holds
\* counter, source, terminating and buffer; evals records, for each iteration,
\* the time, the tracks' outputs, play_source's result, the value written and
\* the tracks' cursors after the iteration.  A panic of play_source ends the
\* call before the frame is written and before counter is incremented.
\* fill_frame_of is the iteration whose play_source returned r, and the
\* iteration has one outcome for each r.
fill_frame_of(st, i, fmt, r) ==
            IF r.panic THEN [st EXCEPT !.source = r.source, !.panic = TRUE]
            ELSE With(sample_value(r.out, st.terminating),
                      LAMBDA v :
                        With(closure_played(fmt.data_type, v.val),
                             LAMBDA q :
                                [ st EXCEPT
                                    !.source = r.source,
                                    !.terminating = v.terminating,
                                    !.buffer = write_frame(@, i, fmt.channels, q),
                                    !.counter = @ + 1,
                                    !.evals = Append(@, [ counter |-> st.counter,
                                                          t |-> time_of(st.counter, fmt.sample_rate),
                                                          outs |-> r.outs, out |-> r.out,
                                                          val |-> v.val, q |-> q,
                                                          tracks |-> Cursors(r.source) ]) ]))

fill_frame(st, i, fmt) ==
    { fill_frame_of(st, i, fmt, r) :
        r \in play_source(time_of(st.counter, fmt.sample_rate), st.source) }
\* The iterations from i on, with the outcomes of each outcome of an
\* iteration.
RECURSIVE fill_loop(_, _, _, _)
fill_loop(st, i, n, fmt) ==
    IF i >= n \/ st.panic THEN {st}
    ELSE Each(fill_frame(st, i, fmt), LAMBDA next : fill_loop(next, i + 1, n, fmt))

\* Mutant of fill_buffer: no assertion, the loop fills the whole frames.
fill_buffer_unchecked(static_data, buffer, fmt) ==
    fill_loop([ counter |-> static_data.counter,
                source |-> static_data.source,
                terminating |-> static_data.terminating,
                buffer |-> buffer,
                evals |-> << >>,
                panic |-> FALSE ],
              0, Len(buffer) \div fmt.channels, fmt)

\* fill_buffer(static_data, buffer, closure): the assertion, then the loop.
\* The call has the outcomes of its loop.
fill_buffer(static_data, buffer, fmt) ==
    LET st == [ counter |-> static_data.counter,
                source |-> static_data.source,
                terminating |-> static_data.terminating,
                buffer |-> buffer,
                evals |-> << >>,
                panic |-> FALSE ]
    IN  IF Len(buffer) % fmt.channels # 0
            THEN {[st EXCEPT !.panic = TRUE]}
            ELSE fill_loop(st, 0, Len(buffer) \div fmt.channels, fmt)

\* ------------------------------------------------------------ the session
VARIABLES
    format,       \* the negotiated format: sample_rate, channels, data_type
    counter,      \* main's `counter`, moved into the callback
    source,       \* main's `source`, moved into the callback
    terminating,  \* the render thread's `terminating`
    buffer,       \* the buffer of the latest fill_buffer call, as it left it
    pcRender,     \* "unspawned" (main has not spawned the thread), "idle"
                  \* (in event_loop.run, between callbacks), "parked" (in
                  \* thread::park, inside a callback) or "panicked"
    pending,      \* the stream_result of the callback that is parked
    chan,         \* the messages sent on tx and not yet received
    pcMain,       \* "setup" (before the stream plays), "recv" (blocked in
                  \* rx.recv), "exited" (main returned) or "failed" (main
                  \* panicked)
    sent,         \* history: the number of tx.send calls so far
    entry,        \* history: counter at the entry of the latest fill_buffer
                  \* call, or None before the first call
    log,          \* history: the evaluations of play_source, in order
    solo,         \* reference: a Source that owns only the longest track ...
    soloLog,      \* ... and its outputs at the times of log
    track,        \* a Track on its own, given to play_track at any times
    call,         \* the latest call of play_track on track: its t, what it
                  \* returned and the note_gen call it made, or None
    sorted,       \* history: no call on track had a t below 0 or below an
                  \* earlier call's
    sample,       \* an f64 given to the closure of the format's sample type
    quantized     \* what the closure made of sample, or None

\* The variables of the session, and those of the functions taken alone.
session == << counter, source, terminating, buffer, pcRender, pending,
              chan, pcMain, sent, entry, log, solo, soloLog >>
alone == << track, call, sorted, sample, quantized >>

vars == << format, session, alone >>

\* The stream_result the driver passes to a callback: an error, an input
\* stream's data, or an output buffer of len slots.
ErrResult == [kind |-> "Err", len |-> 0]
InputResult == [kind |-> "Input", len |-> 0]
OutputResult(len) == [kind |-> "Output", len |-> len]

\* The buffers lent under a format have at most MaxFrames frames; their length
\* need not be a multiple of the channel count.
StreamResults(fmt) ==
    {ErrResult, InputResult}
        \cup {OutputResult(l) : l \in 0 .. MaxFrames * fmt.channels}

\* The total length of a track's instructions, in ticks.
RECURSIVE total_length(_)
total_length(instructions) ==
    IF instructions = << >> THEN 0
    ELSE current_length(Head(instructions)) + total_length(Tail(instructions))

\* The index of the (first) longest track of a score, 0 for no track.
Longest(score) ==
    IF score = << >> THEN 0
    ELSE CHOOSE i \in 1 .. Len(score) :
            /\ \A j \in 1 .. Len(score) :
                  total_length(score[j]) <= total_length(score[i])
            /\ \A j \in 1 .. (i - 1) :
                  total_length(score[j]) < total_length(score[i])

SoloNew(score) ==
    IF score = << >> THEN SourceNew(<< >>)
    ELSE SourceNew(<< score[Longest(score)] >>)

\* No function is exercised on its own.
AloneIdle ==
    /\ track = TrackNew(<< >>)
    /\ call = None
    /\ sorted = TRUE
    /\ sample = F64Zero(1)
    /\ quantized = None

\* main is about to ask the host for its default output device; format is the
\* first format this device supports, at its highest sample rate.
Init ==
    /\ format \in Formats
    /\ \E score \in Scores :
          /\ source = SourceNew(score)
          /\ solo = SoloNew(score)
    /\ counter = 0
    /\ terminating = FALSE
    /\ buffer = << >>
    /\ pcRender = "unspawned"
    /\ pending = None
    /\ chan = 0
    /\ pcMain = "setup"
    /\ sent = 0
    /\ entry = None
    /\ log = << >>
    /\ soloLog = << >>
    /\ AloneIdle

\* main up to rx.recv(): the device is found and offers the format, the stream
\* is built and played, counter, source and the channel are made and the
\* render thread is spawned.
Setup ==
    /\ pcMain = "setup"
    /\ pcMain' = "recv"
    /\ pcRender' = "idle"
    /\ UNCHANGED << format, counter, source, terminating, buffer, pending, chan,
                    sent, entry, log, solo, soloLog >>
    /\ UNCHANGED alone

\* One of main's expect and unwrap calls on the way panics: there is no output
\* device, the formats cannot be queried, no format is supported, or the
\* stream cannot be built or played.  No thread was spawned.
SetupFails ==
    /\ pcMain = "setup"
    /\ pcMain' = "failed"
    /\ UNCHANGED << format, counter, source, terminating, buffer, pcRender,
                    pending, chan, sent, entry, log, solo, soloLog >>
    /\ UNCHANGED alone

\* The process is alive until main returns or panics.
Alive == pcMain = "recv"

\* The reference Source evaluated at the times of evals, in order, with the
\* outcomes of each outcome of an evaluation.
RECURSIVE solo_run(_, _, _)
solo_run(src, outs, evals) ==
    IF evals = << >> THEN {[source |-> src, outs |-> outs]}
    ELSE Each(play_source(Head(evals).t, src),
              LAMBDA r : solo_run(r.source, Append(outs, r.out), Tail(evals)))

\* The callback from `let stream_data = match stream_result` on: the panic on
\* an error, nothing for an input stream, fill_buffer for an output buffer.
Body(stream_result) ==
    IF stream_result.kind = "Err" THEN
        /\ pcRender' = "panicked"
        /\ UNCHANGED << counter, source, terminating, buffer, entry, log,
                        solo, soloLog >>
    ELSE IF stream_result.kind = "Input" THEN
        /\ pcRender' = "idle"
        /\ UNCHANGED << counter, source, terminating, buffer, entry, log,
                        solo, soloLog >>
    ELSE
        LET static_data == [ counter |-> counter, source |-> source,
                             terminating |-> terminating ]
            lent == [k \in 1 .. stream_result.len |-> Unwritten]
        IN  \E r \in fill_buffer(static_data, lent, format) :
            \E s \in solo_run(solo, soloLog, r.evals) :
            /\ counter' = r.counter
            /\ source' = r.source
            /\ terminating' = r.terminating
            /\ buffer' = r.buffer
            /\ pcRender' = IF r.panic THEN "panicked" ELSE "idle"
            /\ entry' = Some(counter)
            /\ log' = log \o r.evals
            /\ solo' = s.source
            /\ soloLog' = s.outs

\* The buffer of stream_result can be filled without counter passing MaxCounter.
InBounds(stream_result) ==
    counter + stream_result.len \div format.channels <= MaxCounter

\* Mutant of Callback: the thread parks before it sends.
Callback_park_first(stream_result) ==
    /\ Alive
    /\ pcRender = "idle"
    /\ IF terminating
          THEN /\ pcRender' = "parked"
               /\ pending' = Some(stream_result)
               /\ UNCHANGED << counter, source, terminating, buffer, entry,
                               log, solo, soloLog, chan, sent >>
          ELSE /\ InBounds(stream_result)
               /\ Body(stream_result)
               /\ UNCHANGED << chan, sent, pending >>
    /\ UNCHANGED << format, pcMain >>
    /\ UNCHANGED alone

\* Mutant of Callback: the notification is sent whatever the flag says.
Callback_send_always(stream_result) ==
    /\ Alive
    /\ pcRender = "idle"
    /\ sent < MaxSends
    /\ chan' = chan + 1
    /\ sent' = sent + 1
    /\ pcRender' = "parked"
    /\ pending' = Some(stream_result)
    /\ UNCHANGED << counter, source, terminating, buffer, entry,
                    log, solo, soloLog >>
    /\ UNCHANGED << format, pcMain >>
    /\ UNCHANGED alone

\* The driver invokes the callback: `if terminating { tx.send(()); park() }`,
\* then the rest of the callback.
Callback(stream_result) ==
    /\ Alive
    /\ pcRender = "idle"
    /\ IF terminating
          THEN /\ sent < MaxSends
               /\ chan' = chan + 1
               /\ sent' = sent + 1
               /\ pcRender' = "parked"
               /\ pending' = Some(stream_result)
               /\ UNCHANGED << counter, source, terminating, buffer, entry,
                               log, solo, soloLog >>
          ELSE /\ InBounds(stream_result)
               /\ Body(stream_result)
               /\ UNCHANGED << chan, sent, pending >>
    /\ UNCHANGED << format, pcMain >>
    /\ UNCHANGED alone

\* thread::park() returns (nothing unparks the thread, but park may return
\* spuriously) and the callback goes on with its stream_result.
ParkReturn ==
    /\ Alive
    /\ pcRender = "parked"
    /\ InBounds(pending[1])
    /\ Body(pending[1])
    /\ pending' = None
    /\ UNCHANGED << format, chan, sent, pcMain >>
    /\ UNCHANGED alone

\* rx.recv() returns Ok(()): a message was in the channel.  main returns and
\* the process exits.
MainRecv ==
    /\ pcMain = "recv"
    /\ chan > 0
    /\ chan' = chan - 1
    /\ pcMain' = "exited"
    /\ UNCHANGED << format, counter, source, terminating, buffer, pcRender,
                    pending, sent, entry, log, solo, soloLog >>
    /\ UNCHANGED alone

\* rx.recv() returns Err: the channel is empty and tx was dropped when the
\* render thread panicked; expect("thread reception error") panics in main.
MainRecvErr ==
    /\ pcMain = "recv"
    /\ chan = 0
    /\ pcRender = "panicked"
    /\ pcMain' = "failed"
    /\ UNCHANGED << format, counter, source, terminating, buffer, pcRender,
                    pending, chan, sent, entry, log, solo, soloLog >>
    /\ UNCHANGED alone

\* The driver invokes the callback with some stream_result.
DriverCallback ==
    \E stream_result \in StreamResults(format) : Callback(stream_result)

Next ==
    \/ Setup
    \/ SetupFails
    \/ DriverCallback
    \/ ParkReturn
    \/ MainRecv
    \/ MainRecvErr

Spec == Init /\ [][Next]_vars

\* The session of the claims about termination: the set-up succeeds, the
\* driver invokes the callback again and again, each time with a non-empty
\* output buffer of whole frames and never with an error, and main is
\* scheduled.
GoodResults(fmt) == {OutputResult(f * fmt.channels) : f \in 1 .. MaxFrames}

GoodCallback == \E stream_result \in GoodResults(format) : Callback(stream_result)

NextLive ==
    \/ Setup
    \/ GoodCallback
    \/ ParkReturn
    \/ MainRecv
    \/ MainRecvErr

LiveSpec ==
    /\ Init
    /\ [][NextLive]_vars
    /\ WF_vars(Setup)
    /\ WF_vars(GoodCallback)
    /\ WF_vars(MainRecv)
    /\ WF_vars(MainRecvErr)

\* ------------------------------------------------- play_track on its own
\* The session has not begun (and has no track).
SessionIdle ==
    /\ source = SourceNew(<< >>)
    /\ solo = SourceNew(<< >>)
    /\ counter = 0
    /\ terminating = FALSE
    /\ buffer = << >>
    /\ pcRender = "unspawned"
    /\ pending = None
    /\ chan = 0
    /\ pcMain = "setup"
    /\ sent = 0
    /\ entry = None
    /\ log = << >>
    /\ soloLog = << >>

Tracks == {TrackNew(is) : is \in SeqsUpTo(AnyInstructions, MaxTrackLen)}

\* play_track reads no format: one of them stands for the device's.
InitTrack ==
    /\ format = CHOOSE f \in Formats : TRUE
    /\ SessionIdle
    /\ track \in Tracks
    /\ call = None
    /\ sorted = TRUE
    /\ sample = F64Zero(1)
    /\ quantized = None

\* play_track(t, &mut track), unless an earlier call has panicked.
PlayTrack(t) ==
    /\ IF call = None THEN TRUE ELSE ~call[1].panic
    /\ \E r \in play_track(t, track) :
          /\ track' = r.track
          /\ call' = Some([t |-> t, out |-> r.out, gen |-> r.gen, panic |-> r.panic])
    /\ sorted' = (sorted /\ t >= 0 /\ (call # None => call[1].t <= t))
    /\ UNCHANGED << format, session, sample, quantized >>

PlayTrackAnyTime == \E t \in Times : PlayTrack(t)

NextTrack == PlayTrackAnyTime

TrackSpec == InitTrack /\ [][NextTrack]_vars
\* ------------------------------------------------ the closures on their own
\* The f64 values given to a closure: from -2.0 to 2.0 in steps of
\* 1 / SampleSteps (-1.0, 0.0 and 1.0 are among them), the infinities and NaN.
Samples ==
    {F64Div(F64FromInt(k), F64FromInt(SampleSteps)) :
        k \in (-2 * SampleSteps) .. (2 * SampleSteps)}
        \cup {F64Inf(1), F64Inf(-1), F64NaN}

InitQuant ==
    /\ format \in Formats
    /\ SessionIdle
    /\ track = TrackNew(<< >>)
    /\ call = None
    /\ sorted = TRUE
    /\ sample \in Samples
    /\ quantized = None

\* closure(sample), for the closure main passes with the format's sample type.
Quantize ==
    /\ quantized = None
    /\ quantized' = Some(closure(format.data_type, sample))
    /\ UNCHANGED << format, session, track, call, sorted, sample >>

NextQuant == Quantize

QuantSpec == InitQuant /\ [][NextQuant]_vars

\* ------------------------------------------------------------- the claims
\* The score the Source was built from.
ScoreOf(src) == [i \in 1 .. Len(src.tracks) |-> src.tracks[i].instructions]

\* The sum of the signals of the tracks that are still active (there is one),
\* added in f64 in the order of the tracks.
RECURSIVE SumFrom(_, _)
SumFrom(sum, signals) ==
    IF signals = << >> THEN sum
    ELSE SumFrom(sum_played(sum, Head(signals)[1]), Tail(signals))

SumActive(outs) ==
    LET active == SelectSeq(outs, LAMBDA o : o # None)
    IN  SumFrom(Head(active)[1], Tail(active))

\* The instruction under a track's cursor is a Rest.
OnRest(tr) ==
    /\ tr.current_instruction < Len(tr.instructions)
    /\ tr.instructions[tr.current_instruction + 1].kind = "Rest"

\* The evaluations at which the Source reported exhaustion.
Exhaustions == {k \in 1 .. Len(log) : log[k].out = None}

\* The quantized silence of each sample type, and that of the session's.
SilenceOf == [a \in {f.data_type : f \in Formats} |-> closure(a, F64Zero(1))] @@ << >>
Silence == SilenceOf[format.data_type]

\* The frames of the latest fill_buffer call, when it was given whole frames.
WholeFrames == entry # None /\ Len(buffer) % format.channels = 0
FramesOfCall == 0 .. (Len(buffer) \div format.channels - 1)
SlotsOfFrame(i) == (format.channels * i + 1) .. (format.channels * i + format.channels)

\* C1: play_source reports exhaustion (None) exactly when every track reports
\* exhaustion in that call (also with no track at all); when some track is
\* active it returns Some of the sum of the active tracks' signals, which is
\* Some(0.0) when all of these are silent.
C1_ExhaustedIffAllTracksExhausted ==
    \A k \in 1 .. Len(log) :
        LET e == log[k]
        IN  /\ (e.out = None) <=> (\A i \in 1 .. Len(e.outs) : e.outs[i] = None)
            /\ (\E i \in 1 .. Len(e.outs) : e.outs[i] # None)
                  => e.out = Some(SumActive(e.outs))

\* C1 witness: of two tracks the first is exhausted and the second is on a
\* Rest: the Source was just evaluated to Some(0.0), not to None.
C1_Witness ==
    /\ Len(source.tracks) = 2
    /\ log # << >>
    /\ source.tracks[1].instructions # << >>
    /\ log[Len(log)].outs[1] = None
    /\ OnRest(source.tracks[2])
    /\ log[Len(log)].out = Some(F64Zero(1))

\* C2: terminating is false until the Source has reported exhaustion, true
\* from the call in which it first does, and never reset to false.
C2_TerminatingSticky ==
    /\ [](terminating <=> Exhaustions # {})
    /\ [][terminating => terminating']_vars

\* C2 witness: the flag was set in one call and a later call (after the park
\* returned) has filled a buffer; the flag is still set.
C2_Witness ==
    /\ terminating
    /\ sent >= 1
    /\ pcRender = "idle"
    /\ entry # None
    /\ \E k \in Exhaustions : log[k].counter < entry[1]
    /\ Len(buffer) > 0
    /\ log[1].out # None

\* C3: from the first evaluation at which the Source reports exhaustion on,
\* every evaluation reports exhaustion and every frame is written with the
\* quantizer's value for 0.0, in that call and in every later call.
C3_SilenceAfterExhaustion ==
    /\ \A j \in Exhaustions : \A k \in j .. Len(log) :
          log[k].out = None /\ log[k].val = F64Zero(1) /\ log[k].q = Silence
    /\ WholeFrames =>
          \A i \in FramesOfCall :
              (\E j \in Exhaustions : log[j].counter <= entry[1] + i)
                  => \A s \in SlotsOfFrame(i) : buffer[s] = Some(Silence)

\* C3 witness: a call that began after the Source was exhausted has filled a
\* buffer of two frames.
C3_Witness ==
    /\ entry # None
    /\ \E j \in Exhaustions : log[j].counter < entry[1]
    /\ Len(buffer) = 2 * format.channels
    /\ pcRender = "idle"
    /\ \E k \in 1 .. Len(log) : log[k].q # Silence

\* C4 (as claimed): the notification is sent at most once in the session.
C4_NotifiedExactlyOnce == sent <= 1

\* C5 (as claimed): whatever the score (its instructions all have positive
\* lengths), with a driver that keeps invoking the callback with non-empty
\* output buffers and no error, and a scheduled main, the flag is eventually
\* set and main's rx.recv() eventually returns Ok.  A Note whose pitch makes
\* pitch_compute infinite refutes it: sawtooth panics in the call that first
\* renders it, the flag stays false, tx is dropped and main fails in
\* rx.recv().
C5_EventuallyCompletes == <>(terminating /\ pcMain = "exited")

\* C6 (as claimed): the render thread never suspends inside a callback.
C6_RenderNeverSuspends == pcRender # "parked"

\* C6 (as amended): the render thread suspends only in the park of a callback
\* entered with the flag set: the Source has reported exhaustion by then and
\* the notification of this callback has been sent, so that the send did not
\* wait for the park; main is the only thread that blocks on the channel.
C6_SuspendsOnlyAfterNotifying ==
    pcRender = "parked" =>
        /\ terminating
        /\ Exhaustions # {}
        /\ sent >= 1
        /\ pending # None
        /\ chan + (IF pcMain = "exited" THEN 1 ELSE 0) = sent

\* C6 witness: a score with a sounding note was played to its end, and the
\* render thread is parked in the callback that sent the notification.
C6_Witness ==
    /\ pcRender = "parked"
    /\ sent = 1
    /\ chan = 1
    /\ pcMain = "recv"
    /\ \E k \in 1 .. Len(log) : log[k].q # Silence

\* C7 (as claimed): a track with instructions reports exhaustion at exactly
\* the samples whose time is past its total duration: first within one sample
\* period after it, and never at or before it.
C7_ExhaustedWithinOneSample ==
    \A k \in 1 .. Len(log) : \A i \in 1 .. Len(source.tracks) :
        source.tracks[i].instructions # << >>
            => ( (log[k].outs[i] = None)
                    <=> (log[k].t > total_length(source.tracks[i].instructions)) )

\* Two tracks of different total lengths: the longer and the shorter one.
TwoUnequalTracks ==
    /\ Len(source.tracks) = 2
    /\ total_length(source.tracks[1].instructions)
          # total_length(source.tracks[2].instructions)
LongerTrack == Longest(ScoreOf(source))
ShorterTrack == 3 - LongerTrack

\* C8: a Source of two tracks of different total lengths, evaluated at the
\* same times as a Source of the longer track alone, is not exhausted while
\* the longer track alone is not, and at every sample at which the shorter
\* track is exhausted its output is the output of the longer track alone.
C8_LongerTrackPlaysOn ==
    TwoUnequalTracks =>
        LET shorter == ShorterTrack
        IN  /\ Len(soloLog) = Len(log)
            /\ \A k \in 1 .. Len(log) :
                  /\ soloLog[k] # None => log[k].out # None
                  /\ log[k].outs[shorter] = None => log[k].out = soloLog[k]

\* C8 witness: the shorter track is exhausted and the Source has just played
\* a sounding sample of the longer one, the same as the longer track alone.
C8_Witness ==
    /\ TwoUnequalTracks
    /\ log # << >>
    /\ log[Len(log)].outs[ShorterTrack] = None
    /\ log[Len(log)].out # None
    /\ log[Len(log)].out[1].kind = "num"
    /\ ~IsZero(log[Len(log)].out[1])
    /\ log[Len(log)].out = soloLog[Len(log)]
    /\ source.tracks[ShorterTrack].instructions # << >>

C11_AssertBeforeAnyEffect ==
    /\ [](Len(buffer) % format.channels # 0 =>
            /\ pcRender = "panicked"
            /\ \A s \in 1 .. Len(buffer) : buffer[s] = Unwritten)
    /\ [][(Len(buffer') % format.channels # 0 /\ pcRender # "panicked") =>
            /\ pcRender' = "panicked"
            /\ entry' = Some(counter)
            /\ UNCHANGED << counter, source, terminating, log >>]_vars

\* C11 witness: after a call that played a sample, a call on three slots under
\* a format of two channels has panicked; the Source was not exhausted.
C11_Witness ==
    /\ format.channels = 2
    /\ Len(buffer) = 3
    /\ pcRender = "panicked"
    /\ entry = Some(counter)
    /\ counter > 0
    /\ Len(log) = counter
    /\ ~terminating
    /\ \E i \in 1 .. Len(source.tracks) : source.tracks[i].current_instruction > 0

\* C12 (as claimed): note_gen is never called with a note duration <= 0.
C12_NoteDurationPositive ==
    (call # None /\ call[1].gen # None) => F64Lt(F64Zero(1), call[1].gen[1].length)

\* C13 (as claimed): an error result passed to the callback ends the session
\* in a failure.  While a callback holds an error result it has yet to look
\* at, main's rx.recv() has not returned Ok (the callback is only entered
\* while main is still receiving, and main must end with an error).
C13_ErrorIsTerminalFailure ==
    pending = Some(ErrResult) => pcMain # "exited"

\* C14 (as claimed): on [-1, 1] the u16 closure returns (1 + value) *
\* (max_unsigned16 / 2) truncated, over the full range: 0 for -1.0, the
\* midpoint for 0.0 and max_unsigned16 (65535) for 1.0.
C14_U16FullRange ==
    ( /\ format.data_type = "U16"
      /\ quantized # None
      /\ F64Le(F64Neg(One), sample)
      /\ F64Le(sample, One) )
        => /\ quantized[1] =
                F64ToInt(F64Mul(F64Add(One, sample), F64Div(F64FromInt(U16Max), Two)),
                         0, U16Max)
           /\ sample = F64Neg(One) => quantized[1] = 0
           /\ IsZero(sample) => quantized[1] = U16Max \div 2
           /\ sample = One => quantized[1] = U16Max

\* The total duration of the first n instructions, in ticks.
CumLen(instructions, n) == total_length(SubSeq(instructions, 1, n))

\* The cursor the spec's invariant prescribes at time t: instructions.len()
\* past the total duration, otherwise the smallest index whose cumulative
\* duration (its own included) exceeds t; None when there is no such index.
CursorAt(instructions, t) ==
    IF t > total_length(instructions) THEN Some(Len(instructions))
    ELSE LET over == {i \in 0 .. (Len(instructions) - 1) :
                        CumLen(instructions, i + 1) > t}
         IN  IF over = {} THEN None
             ELSE Some(CHOOSE i \in over : \A j \in over : i <= j)

\* C15 (as claimed): after every evaluation of a track at a sample time t its
\* current_instruction is the smallest index whose cumulative duration
\* exceeds t, or instructions.len() if t exceeds the total duration.
C15_CursorIsSmallestIndex ==
    \A k \in 1 .. Len(log) : \A i \in 1 .. Len(source.tracks) :
        LET at == CursorAt(source.tracks[i].instructions, log[k].t)
        IN  at # None => log[k].tracks[i].current_instruction = at[1]

\* The cursor of track i before the k-th evaluation of the session.
Before(k, i) ==
    IF k = 1 THEN [current_instruction |-> 0, start_of_instruction |-> 0]
    ELSE log[k - 1].tracks[i]

\* What a track may return when it renders the instruction at index cur,
\* begun at start, for the time t: None when there is no such instruction.
Rendered(instructions, cur, start, t) ==
    IF cur >= Len(instructions) THEN {None}
    ELSE LET ins == instructions[cur + 1]
         IN  IF ins.kind = "Note"
                 THEN {Some(g.val) : g \in note_gen_played(t, start, ins.pitch, length(ins))}
                 ELSE {Some(F64Zero(1))}

\* The k-th evaluation is exactly on the end of the instruction under the
\* cursor of track i.
OnBoundary(k, i) ==
    LET b == Before(k, i)
        instructions == source.tracks[i].instructions
    IN  /\ b.current_instruction < Len(instructions)
        /\ log[k].t = b.start_of_instruction
                        + current_length(instructions[b.current_instruction + 1])

\* C16: at a sample exactly on the end of the instruction under the cursor,
\* play_track leaves the cursor where it is and renders that instruction; at
\* the next sample (a later time) the cursor is on the next instruction,
\* which began at the boundary, and the sample is rendered from it (the
\* track is exhausted when there is none).
C16_StrictTieBreak ==
    \A k \in 1 .. Len(log) : \A i \in 1 .. Len(source.tracks) :
        OnBoundary(k, i) =>
            LET b == Before(k, i)
                instructions == source.tracks[i].instructions
                next == [ current_instruction |-> b.current_instruction + 1,
                          start_of_instruction |-> log[k].t ]
            IN  /\ log[k].tracks[i] = b
                /\ log[k].outs[i] \in Rendered(instructions, b.current_instruction,
                                                b.start_of_instruction, log[k].t)
                /\ k < Len(log) =>
                      /\ log[k + 1].t > log[k].t
                      /\ log[k + 1].tracks[i] = next
                      /\ log[k + 1].outs[i] \in
                            Rendered(instructions, next.current_instruction,
                                     next.start_of_instruction, log[k + 1].t)

\* C16 witness: a sample fell exactly on the end of an instruction that is
\* followed by a Note, and the next sample was rendered from that Note.
C16_Witness ==
    \E k \in 1 .. (Len(log) - 1) : \E i \in 1 .. Len(source.tracks) :
        /\ OnBoundary(k, i)
        /\ log[k].t > 0
        /\ Before(k, i).current_instruction + 1 < Len(source.tracks[i].instructions)
        /\ source.tracks[i].instructions[Before(k, i).current_instruction + 2].kind
              = "Note"
        /\ log[k].tracks[i] = Before(k, i)
        /\ log[k + 1].tracks[i].current_instruction
              = Before(k, i).current_instruction + 1
        /\ log[k + 1].outs[i] # None

\* C17: whatever the times play_track is called at, current_instruction never
\* exceeds instructions.len(), and a call leaves it or adds one to it; a call
\* on a track whose cursor equals instructions.len() returns None, calls
\* note_gen not at all and leaves the track as it is.
C17_CursorMonotone ==
    /\ [](track.current_instruction <= Len(track.instructions))
    /\ [][ /\ track'.instructions = track.instructions
           /\ track'.current_instruction >= track.current_instruction
           /\ track'.current_instruction <= track.current_instruction + 1
           /\ track.current_instruction = Len(track.instructions) =>
                 /\ track' = track
                 /\ call'[1].out = None
                 /\ call'[1].gen = None
                 /\ ~call'[1].panic ]_vars

\* The instructions of the track taken alone all have positive lengths.
PositiveLengths ==
    \A n \in 1 .. Len(track.instructions) : length(track.instructions[n]) > 0

\* C17 witness: a track of two instructions of positive lengths has been
\* played to its end and then called again at t = 0: it returned None.
C17_Witness ==
    /\ Len(track.instructions) = 2
    /\ PositiveLengths
    /\ track.current_instruction = 2
    /\ call # None
    /\ call[1].t = 0
    /\ call[1].out = None
    /\ ~sorted

\* Every track of the Source has its cursor at or past its last instruction.
AllTracksExhausted ==
    \A i \in 1 .. Len(source.tracks) :
        source.tracks[i].current_instruction >= Len(source.tracks[i].instructions)

\* C18: once a notification has been sent, the flag is set, the Source has
\* reported exhaustion and every track is exhausted; a message is in the
\* channel, or main's rx.recv() has returned Ok, only after a send.
C18_NotifiedOnlyWhenExhausted ==
    /\ sent >= 1 => (terminating /\ Exhaustions # {} /\ AllTracksExhausted)
    /\ chan > 0 => sent >= 1
    /\ pcMain = "exited" => (sent >= 1 /\ AllTracksExhausted)

\* C18 witness: two tracks with instructions, a sounding sample among those
\* played, have been played to the end and main's rx.recv() has returned Ok.
C18_Witness ==
    /\ pcMain = "exited"
    /\ sent = 1
    /\ Len(source.tracks) = 2
    /\ \A i \in 1 .. 2 : source.tracks[i].current_instruction = 1
    /\ \E k \in 1 .. Len(log) : log[k].out # None /\ log[k].out # Some(F64Zero(1))

\* C19: start_of_instruction is the total duration of the instructions below
\* current_instruction, whatever the times the track was evaluated at (and
\* whatever the lengths).
C19_StartIsSumOfDurations ==
    track.start_of_instruction
        = CumLen(track.instructions, track.current_instruction)

\* C19 witness: a track of two instructions of different positive lengths
\* was advanced past both, the last time later than the end of its second
\* instruction by more than a tick.
C19_Witness ==
    /\ Len(track.instructions) = 2
    /\ PositiveLengths
    /\ length(track.instructions[1]) # length(track.instructions[2])
    /\ track.current_instruction = 2
    /\ track.start_of_instruction > 0
    /\ call # None
    /\ call[1].t > track.start_of_instruction + 1

\* C20 (as claimed): on a track of positive lengths called at times that are
\* >= 0 and never decrease, a call that renders a Note gives note_gen an
\* elapsed time >= 0, and no call reaches sawtooth's panic.  The elapsed time
\* is >= 0, but a Note whose pitch makes pitch_compute infinite has a phase
\* of NaN and reaches the panic.
C20_ElapsedNeverNegative ==
    (PositiveLengths /\ sorted /\ call # None) =>
        /\ ~call[1].panic
        /\ call[1].gen # None => F64Le(F64Zero(1), call[1].gen[1].t)

====
